---- MODULE Spec2Model ----
(***************************************************************************)
(* mysh (src/start.c): the read-execute loop, the redirection resolver and *)
(* the fork/exec/wait choreography of launch and single_command_execution. *)
(* A process is 0 (the interpreter) or a child 1, 2 of the current launch. *)
(* An argument vector is the C array: a sequence whose last element is     *)
(* NULL and in which setup_redirection and launch overwrite elements with  *)
(* NULL; index i of the C code is index i + 1 here.                        *)
(* Spec is the session over lines without wildcards, SpecDispatch the      *)
(* session over one line of each kind execute tells apart, wildcards       *)
(* included; SpecSplit and SpecExpand apply split_line (on lines of         *)
(* characters) and expand_wildcards (on vectors) to every input of a       *)
(* bounded set.                                                            *)
(***************************************************************************)
EXTENDS Integers, Sequences, FiniteSets, TLC

\* ---------------------------------------------------------------- bounds
MaxArgs == 3
\* longest vector handed to expand_wildcards on its own
MaxVector == 3
\* most characters of a line handed to split_line, its newline not counted
MaxLine == 4

\* the program's constants
MAX_ARGS == 128

\* ------------------------------------------------------------ vocabulary
NULL == "NULL"
\* "cat" is a program found on PATH, "f" a file that can be opened in any
\* mode ("g", in the longer lines, is another), "nf" a path that cannot be
\* opened in any mode and is no program.
Tokens == {"cat", "f", "nf", "<", ">", ">>", "|"}
Programs == {"cat"}
Unopenable == {"nf"}

RECURSIVE SeqsUpTo(_, _)
SeqsUpTo(S, n) ==
    IF n = 0 THEN {<<>>}
    ELSE LET shorter == SeqsUpTo(S, n - 1)
         IN  shorter \cup {Append(s, t) : s \in {x \in shorter : Len(x) = n - 1}, t \in S}

\* longer lines of the shapes the launcher distinguishes
LongLines ==
    { <<"cat", ">", "f", "|", "cat">>, <<"cat", ">>", "f", "|", "cat">>,
      <<"cat", "|", "cat", "<", "f">>, <<"cat", "|", "cat", "<", "nf">>,
      <<"cat", "<", "f", "cat">>, <<"cat", "cat", ">", "f", "cat">>,
      <<"cat", "<", "f", ">", "f">>, <<"cat", ">", "f", ">", "f">>,
      <<"cat", "<", "f", "cat", ">", "f", "cat">>,
      <<"cat", ">", "|", "cat">>, <<"cat", "|", "cat", "<">>,
      <<"cat", "<", "f", "|", "cat", ">", "f">>,
      <<"cat", ">", "f", "|", "cat", "<", "f">>,
      <<"cat", "|", "cat", "|", "cat">>,
      <<"cat", "<", "f", ">", "g">>, <<"cat", ">", "g", "<", "f">>,
      <<"cat", ">>", "g", "<", "f">> }

\* the vectors split_line and expand_wildcards hand to execute, NULL-terminated:
\* every vector of at most MaxArgs tokens, and the longer ones above
Lines == {Append(s, NULL) : s \in SeqsUpTo(Tokens, MaxArgs) \cup LongLines}

\* ----------------------------------------------------------- descriptors
Tty == [kind |-> "tty", name |-> "", mode |-> ""]
PipeR == [kind |-> "pipe_r", name |-> "", mode |-> ""]
PipeW == [kind |-> "pipe_w", name |-> "", mode |-> ""]
NoFd == [kind |-> "none", name |-> "", mode |-> ""]
File(n, m) == [kind |-> "file", name |-> n, mode |-> m]
Closed == [in |-> NoFd, out |-> NoFd, open |-> <<>>]

\* close(fd): the first occurrence of fd leaves the list of open descriptors
RECURSIVE close(_, _)
close(open, fd) ==
    IF open = <<>> THEN <<>>
    ELSE IF Head(open) = fd THEN Tail(open)
    ELSE <<Head(open)>> \o close(Tail(open), fd)

Holds(t, fd) == \E j \in 1..Len(t.open) : t.open[j] = fd

\* the files of the environment: a function from the names that exist to
\* their content, a sequence of blocks; Disk is the file system the
\* interpreter's session runs on, where every name but the unopenable ones exists
Names == Tokens \cup {"g"}
Disk == [n \in Names \ Unopenable |-> <<>>]

\* faulty variant: ">" opens without O_TRUNC
open_flags_NoTrunc(op) ==
    IF op = "<" THEN {"O_RDONLY"}
    ELSE IF op = ">" THEN {"O_WRONLY", "O_CREAT"}
    ELSE {"O_WRONLY", "O_CREAT", "O_APPEND"}

\* the flags setup_redirection passes to open for each operator
open_flags(op) ==
    IF op = "<" THEN {"O_RDONLY"}
    ELSE IF op = ">" THEN {"O_WRONLY", "O_CREAT", "O_TRUNC"}
    ELSE {"O_WRONLY", "O_CREAT", "O_APPEND"}

\* open(2) as the resolver calls it: it fails for a name that cannot be
\* opened at all and, without O_CREAT, for a name that does not exist
CanOpen(name, op, files) ==
    /\ name \notin Unopenable
    /\ "O_CREAT" \in open_flags(op) \/ name \in DOMAIN files

\* the files after a successful open(name, flags): O_CREAT creates a
\* missing file empty, O_TRUNC empties an existing one
AfterOpen(files, name, flags) ==
    [n \in DOMAIN files \cup (IF "O_CREAT" \in flags THEN {name} ELSE {}) |->
        IF n = name /\ (n \notin DOMAIN files \/ "O_TRUNC" \in flags) THEN <<>> ELSE files[n]]

\* what execvp receives: the elements before the first NULL
RECURSIVE Argv(_)
Argv(a) == IF a = <<>> \/ Head(a) = NULL THEN <<>> ELSE <<Head(a)>> \o Argv(Tail(a))

IsOp(t) == t \in {"<", ">", ">>"}

\* ------------------------------------------------- redirection resolver
RECURSIVE needs_scan(_, _)
needs_scan(a, i) ==
    IF a[i] = NULL THEN FALSE
    ELSE IF IsOp(a[i]) THEN TRUE
    ELSE needs_scan(a, i + 1)

needs_redirection(a) == needs_scan(a, 1)

OpenMode(op) == IF op = "<" THEN "r" ELSE IF op = ">" THEN "w" ELSE "a"
OpenDiag(op) == IF op = "<" THEN "mysh: open input" ELSE "mysh: open output"
MissingDiag_NoOperator(op) == "mysh: expected file name"
MissingDiag(op) == "mysh: expected file name after '" \o op \o "'"

\* one operator found at a[i]: the two elements become NULL and the scan
\* resumes behind the file name
Removed(a, i) == [a EXCEPT ![i] = NULL, ![i + 1] = NULL]

\* faulty variant: the scan returns behind the first operator it resolved
RECURSIVE redirection_scan_FirstOnly(_, _)
redirection_scan_FirstOnly(s, i) ==
    IF s.args[i] = NULL THEN s
    ELSE IF IsOp(s.args[i]) THEN
        LET op == s.args[i]
            file == s.args[i + 1]
            fd == File(file, OpenMode(op))
        IN  IF file = NULL
            THEN [s EXCEPT !.ret = -1, !.diag = @ \cup {MissingDiag(op)}]
            ELSE IF ~CanOpen(file, op, s.files)
            THEN [s EXCEPT !.ret = -1, !.diag = @ \cup {OpenDiag(op)}]
            ELSE [s EXCEPT !.args = Removed(@, i),
                           !.files = AfterOpen(@, file, open_flags(op)),
                           !.inRedirect = IF op = "<" THEN fd ELSE @,
                           !.outRedirect = IF op = "<" THEN @ ELSE fd,
                           !.open = Append(@, fd)]
    ELSE redirection_scan_FirstOnly(s, i + 1)

\* the for loop of setup_redirection from index i on; s holds the array, the
\* two local descriptors, the caller's open descriptors, the diagnostics and
\* the files of the environment
RECURSIVE redirection_scan(_, _)
redirection_scan(s, i) ==
    IF s.args[i] = NULL THEN s
    ELSE IF IsOp(s.args[i]) THEN
        LET op == s.args[i]
            file == s.args[i + 1]
            fd == File(file, OpenMode(op))
        IN  IF file = NULL
            THEN [s EXCEPT !.ret = -1, !.diag = @ \cup {MissingDiag(op)}]
            ELSE IF ~CanOpen(file, op, s.files)
            THEN [s EXCEPT !.ret = -1, !.diag = @ \cup {OpenDiag(op)}]
            ELSE redirection_scan(
                     [s EXCEPT !.args = Removed(@, i),
                               !.files = AfterOpen(@, file, open_flags(op)),
                               !.inRedirect = IF op = "<" THEN fd ELSE @,
                               !.outRedirect = IF op = "<" THEN @ ELSE fd,
                               !.open = Append(@, fd)],
                     i + 2)
    ELSE redirection_scan(s, i + 1)

\* setup_redirection(args) called by the process whose descriptors are t,
\* with the files of the environment: the scan, then dup2 and close of each
\* local descriptor that was opened
setup_redirection(a, t, files) ==
    LET s == redirection_scan([args |-> a, inRedirect |-> NoFd, outRedirect |-> NoFd,
                               open |-> t.open, ret |-> 0, diag |-> {},
                               files |-> files], 1)
        tin == IF s.inRedirect # NoFd
               THEN [t EXCEPT !.in = s.inRedirect, !.open = close(s.open, s.inRedirect)]
               ELSE [t EXCEPT !.open = s.open]
        tout == IF s.outRedirect # NoFd
                THEN [tin EXCEPT !.out = s.outRedirect, !.open = close(tin.open, s.outRedirect)]
                ELSE tin
    IN  IF s.ret # 0
        THEN [ret |-> -1, args |-> s.args, t |-> [t EXCEPT !.open = s.open], diag |-> s.diag,
              files |-> s.files]
        ELSE [ret |-> 0, args |-> s.args, t |-> tout, diag |-> s.diag, files |-> s.files]

\* ------------------------------------------------------------- the state
VARIABLES
    pc,         \* where the interpreter is: read, pipe, fork, wait, fork1, fork2, close,
                \* wait1, wait2, returned (execute has returned), terminated
    args,       \* the interpreter's argument array of the current line
    pipeIndex,  \* launch: index of the first "|" of args, 0 when there is none
    pid, pid1, pid2,  \* fork results in the interpreter: 0 unset, -1 failed, else the child
    fdt,        \* per process: standard input, standard output, other open descriptors
    child,      \* per child of the current launch: its process state and its own array
    cwd,        \* the interpreter's working directory
    status,     \* what execute returned for the last line
    diag,       \* diagnostics written to standard error while the current line runs,
                \* each with the process that wrote it
    exitCode,   \* the session's exit status once pc = "terminated"
    globCalls,  \* calls of glob made by expand_wildcards for the current line
    printed,    \* what the interpreter wrote to standard output for the current line
    tok,        \* split_line on its own: the line, the memory behind it, the tokens
    exp,        \* expand_wildcards on its own: the vector it is given, what it comes to
    fil         \* a redirected child and the files on their own: the files before,
                \* the files now, the child's descriptors and what it has written

vars == <<pc, args, pipeIndex, pid, pid1, pid2, fdt, child, cwd, status, diag, exitCode,
          globCalls, printed, tok, exp, fil>>
\* the variables of the interpreter
session == <<pc, args, pipeIndex, pid, pid1, pid2, fdt, child, cwd, status, diag, exitCode,
             globCalls, printed>>

Children == {1, 2}
Terminated == {"exited", "signaled"}
Alive == {"forked", "running", "stopped"}

NoChild == [state |-> "none", role |-> "none", args |-> <<NULL>>, argv |-> <<>>,
            startIn |-> NoFd, startOut |-> NoFd, startOpen |-> <<>>,
            code |-> 0, pending |-> FALSE, execFailed |-> FALSE]

Forked(role, a) == [NoChild EXCEPT !.state = "forked", !.role = role, !.args = a]

\* ------------------------------------------------------ code of a child
\* execvp(a[0], a): replaces the program when a[0] names one, returns -1 otherwise
execvp(a) == a[1] # NULL /\ a[1] \in Programs

\* faulty variant: the resolver's failure is not checked before execvp
ChildOutcome_IgnoreFailure(r, t, perror) ==
    IF r.args[1] # NULL /\ r.args[1] \in Programs
    THEN [started |-> TRUE, args |-> r.args, t |-> t, diag |-> r.diag, nullfile |-> FALSE,
          execFailed |-> FALSE, exits |-> FALSE]
    ELSE [started |-> FALSE, args |-> r.args, t |-> Closed, diag |-> r.diag \cup perror,
          nullfile |-> r.args[1] = NULL, execFailed |-> TRUE, exits |-> TRUE]

\* faulty variant: nothing ends the child after a failed execvp
ChildOutcome_NoExit(r, t, perror) ==
    IF r.ret # 0
    THEN [started |-> FALSE, args |-> r.args, t |-> Closed, diag |-> r.diag, nullfile |-> FALSE,
          execFailed |-> FALSE, exits |-> TRUE]
    ELSE IF execvp(r.args)
    THEN [started |-> TRUE, args |-> r.args, t |-> t, diag |-> r.diag, nullfile |-> FALSE,
          execFailed |-> FALSE, exits |-> FALSE]
    ELSE [started |-> FALSE, args |-> r.args, t |-> t, diag |-> r.diag \cup perror,
          nullfile |-> r.args[1] = NULL, execFailed |-> TRUE, exits |-> FALSE]

\* what a child's code up to and including execvp or exit comes to:
\* r is the resolver's result, t the child's descriptors at the execvp call;
\* nullfile: execvp was called with a null file name, which the call does not
\* define (it fails, or the child is ended by a signal in the library);
\* execFailed: execvp came back; exits: the child then calls exit(EXIT_FAILURE)
ChildOutcome(r, t, perror) ==
    IF r.ret # 0
    THEN [started |-> FALSE, args |-> r.args, t |-> Closed, diag |-> r.diag, nullfile |-> FALSE,
          execFailed |-> FALSE, exits |-> TRUE]
    ELSE IF execvp(r.args)
    THEN [started |-> TRUE, args |-> r.args, t |-> t, diag |-> r.diag, nullfile |-> FALSE,
          execFailed |-> FALSE, exits |-> FALSE]
    ELSE [started |-> FALSE, args |-> r.args, t |-> Closed, diag |-> r.diag \cup perror,
          nullfile |-> r.args[1] = NULL, execFailed |-> TRUE, exits |-> TRUE]

NoRedirection(a, t) == [ret |-> 0, args |-> a, t |-> t, diag |-> {}, files |-> Disk]

Resolve(a, t) ==
    IF needs_redirection(a) THEN setup_redirection(a, t, Disk) ELSE NoRedirection(a, t)

\* single_command_execution, pid == 0
single_child(a, t) ==
    LET r == Resolve(a, t)
    IN  ChildOutcome(r, r.t, {"mysh"})

\* launch, child 1: the command before the pipe
producer_child(a, t) ==
    LET r == Resolve(a, [t EXCEPT !.open = close(@, PipeR)])
        wired == [r.t EXCEPT !.out = PipeW, !.open = close(@, PipeW)]
    IN  ChildOutcome(r, wired, {})

\* faulty variant: the consumer does not close the write end of the pipe
consumer_child_KeepsWriteEnd(a, t) ==
    LET r == Resolve(a, t)
        wired == [r.t EXCEPT !.in = PipeR, !.open = close(@, PipeR)]
    IN  ChildOutcome(r, wired, {})

\* launch, child 2: the command after the pipe
consumer_child(a, t) ==
    LET r == Resolve(a, [t EXCEPT !.open = close(@, PipeW)])
        wired == [r.t EXCEPT !.in = PipeR, !.open = close(@, PipeR)]
    IN  ChildOutcome(r, wired, {})

child_code(role, a, t) ==
    IF role = "single" THEN single_child(a, t)
    ELSE IF role = "producer" THEN producer_child(a, t)
    ELSE consumer_child(a, t)

\* faulty variant: the redirections are attached in the calling process as well
AfterChild_InCaller(T, k, o) == [T EXCEPT ![k] = o.t, ![0].in = o.t.in, ![0].out = o.t.out]

\* the descriptor tables after child k ran its code: only its own changes
AfterChild(T, k, o) == [T EXCEPT ![k] = o.t]

\* -------------------------------------------------------------- split_line
\* A line is the sequence of its characters, each a string of length one.
\* read_line's buffer holds the line, the terminating NUL and, behind it,
\* bytes getline did not write (stale); beyond those the model reads NUL.
NUL == "\\0"
Quote == "\""
isspace(c) == c \in {" ", "\t", "\n", "\r"}

Memory(line, stale) == line \o <<NUL>> \o stale
\* line[i] of the C code
At(mem, i) == IF i + 1 <= Len(mem) THEN mem[i + 1] ELSE NUL

\* strndup(line + start, n): at most n characters, none behind a NUL
RECURSIVE strndup(_, _, _)
strndup(mem, start, n) ==
    IF n = 0 \/ At(mem, start) = NUL THEN <<>>
    ELSE <<At(mem, start)>> \o strndup(mem, start + 1, n - 1)

\* faulty variant: whitespace ends a token inside quotes too
delimits_InQuotesToo(c, in_quote) == isspace(c)

\* isspace(line[end]) && !in_quote
delimits(c, in_quote) == isspace(c) /\ ~in_quote

\* the while loop of split_line; the result holds the tokens and the index
\* at which the loop read the NUL that ended it
RECURSIVE split_scan(_, _, _, _, _)
split_scan(mem, start, end, in_quote, tokens) ==
    IF At(mem, end) = NUL THEN [tokens |-> tokens, end |-> end]
    ELSE
        LET q == IF At(mem, end) = Quote THEN ~in_quote ELSE in_quote
            last == At(mem, end + 1) = NUL
        IN  IF delimits(At(mem, end), q) \/ last
            THEN LET e == IF last /\ ~isspace(At(mem, end)) THEN end + 1 ELSE end
                     t == IF e - start > 0
                          THEN Append(tokens, strndup(mem, start, e - start))
                          ELSE tokens
                 IN  split_scan(mem, e + 1, e + 1, q, t)
            ELSE split_scan(mem, start, end + 1, q, tokens)

split_line(line, stale) == split_scan(Memory(line, stale), 0, 0, FALSE, <<>>)

\* ---------------------------------------------------- wildcard expansion
\* the tokens that hold a '*' (strchr(arg, '*') != NULL) and, per pattern,
\* the sorted names of the directory entries it matches; the directory
\* holds files named a.c, b.c, cat, | and ~
Wildcards == {"*.c", "*.zzz", "*"}
Matches(p) ==
    IF p = "*.c" THEN <<"a.c", "b.c">>
    ELSE IF p = "*" THEN <<"a.c", "b.c", "cat", "|", "~">>
    ELSE <<>>

\* glob(p, GLOB_TILDE | GLOB_NOCHECK, ...): with GLOB_NOCHECK a pattern that
\* matches nothing is returned as its own only name
glob(p) == [rc |-> 0, gl_pathv |-> IF Matches(p) = <<>> THEN <<p>> ELSE Matches(p)]

\* the array as split_line allocated it: the tokens, NULL, MAX_ARGS slots
Allocated(v) == [args |-> v, slots |-> MAX_ARGS, calls |-> 0, overrun |-> FALSE]

\* the for loop of expand_wildcards from index i on. A pattern at index i
\* with n names: the array is reallocated to n + 1 slots, the names are
\* stored at i .. i + n - 1 and NULL at i + n; what stood behind those
\* slots is still there but no longer part of the vector. overrun: a slot
\* outside the reallocated array was written.
RECURSIVE expand_from(_, _)
expand_from(e, i) ==
    IF e.args[i] = NULL THEN e
    ELSE IF e.args[i] \in Wildcards THEN
        LET g == glob(e.args[i])
            n == Len(g.gl_pathv)
        IN  IF g.rc = 0
            THEN expand_from(
                     [args |-> SubSeq(e.args, 1, i - 1) \o g.gl_pathv \o <<NULL>>
                                  \o SubSeq(e.args, i + n + 1, Len(e.args)),
                      slots |-> n + 1,
                      calls |-> e.calls + 1,
                      overrun |-> e.overrun \/ i + n > n + 1],
                     i + 1)
            ELSE expand_from([e EXCEPT !.calls = @ + 1], i + 1)
    ELSE expand_from(e, i + 1)

\* expand_wildcards(&args): what the call can come to. A write outside the
\* reallocated array is undefined: the vector is as the loop stored it, or
\* the process is ended by a memory fault.
expand_wildcards(v) ==
    LET e == expand_from(Allocated(v), 1)
    IN  {[args |-> e.args, calls |-> e.calls, overrun |-> e.overrun, fault |-> f] :
            f \in IF e.overrun THEN BOOLEAN ELSE {FALSE}}

\* --------------------------------------------------------- the dispatcher
builtin_str == {"cd", "pwd", "which", "exit"}
EXIT_SUCCESS == 0
EXIT_FAILURE == 1
CommentTokens == {"#"}
Home == "home"
Directories == {"home", "dir"}

\* faulty variant: the last "|" of the array
RECURSIVE FindPipe_Last(_, _)
FindPipe_Last(a, i) ==
    IF a[i] = NULL THEN 0
    ELSE IF a[i] = "|" /\ FindPipe_Last(a, i + 1) = 0 THEN i
    ELSE FindPipe_Last(a, i + 1)

\* launch: the first "|" of the array, 0 when there is none
RECURSIVE FindPipe(_, _)
FindPipe(a, i) ==
    IF a[i] = NULL THEN 0
    ELSE IF a[i] = "|" THEN i
    ELSE FindPipe(a, i + 1)

\* faulty variant: ~ is not taken for the home directory
cd_target_NoTilde(a) == IF a[2] = NULL THEN Home ELSE a[2]

\* cd: chdir to HOME or to args[1]; a failed chdir leaves the directory
cd_target(a) == IF a[2] = NULL \/ a[2] = "~" THEN Home ELSE a[2]
chdir(target) == target \in Directories
cd(a, dir) == IF chdir(cd_target(a)) THEN cd_target(a) ELSE dir


\* pwd: getcwd, then the directory and a newline on standard output
pwd(dir) == <<dir, "\n">>

\* faulty variant: the directories are searched from the last to the first
paths_Reversed == <<"/bin", "/usr/bin", "/usr/local/bin">>

\* which: the directories searched, in this order, and the files in them
\* that access(path, X_OK) accepts
paths == <<"/usr/local/bin", "/usr/bin", "/bin">>
Executables == {"/usr/bin/cat", "/bin/cat", "/bin/pwd"}
access(path) == path \in Executables

\* which: the for loop over paths: the first path that access accepts
RECURSIVE which_search(_, _)
which_search(name, i) ==
    IF i > Len(paths) THEN NULL
    ELSE IF access(paths[i] \o "/" \o name) THEN paths[i] \o "/" \o name
    ELSE which_search(name, i + 1)

\* which: what it writes to standard output (out) and standard error (err)
mysh_which(a) ==
    IF a[2] = NULL \/ a[3] # NULL
    THEN [out |-> <<>>, err |-> {"mysh: expected one argument to \"which\""}]
    ELSE IF which_search(a[2], 1) # NULL
    THEN [out |-> <<which_search(a[2], 1), "\n">>, err |-> {}]
    ELSE IF a[2] \in builtin_str
    THEN [out |-> <<"mysh: ", a[2], ": shell built-in command", "\n">>, err |-> {}]
    ELSE [out |-> <<>>, err |-> {"mysh: " \o a[2] \o ": Command not found"}]

\* exit: every argument followed by a space, then a newline, then exit(0)
RECURSIVE mysh_exit(_, _)
mysh_exit(a, i) ==
    IF a[i] = NULL THEN <<"\n">>
    ELSE <<a[i], " ">> \o mysh_exit(a, i + 1)

\* execute(a) up to the first system call of launch whose outcome the
\* environment decides
execute(a) ==
    /\ args' = a
    /\ IF a[1] = NULL \/ a[1] \in CommentTokens
       THEN /\ pc' = "returned" /\ status' = 1 /\ diag' = {} /\ pipeIndex' = 0
            /\ printed' = <<>>
            /\ UNCHANGED <<fdt, cwd, exitCode>>
       ELSE IF a[1] \in builtin_str
       THEN /\ pc' = IF a[1] = "exit" THEN "terminated" ELSE "returned"
            /\ exitCode' = IF a[1] = "exit" THEN 0 ELSE exitCode
            /\ cwd' = IF a[1] = "cd" THEN cd(a, cwd) ELSE cwd
            /\ diag' = IF a[1] = "cd" /\ ~chdir(cd_target(a)) THEN {<<0, "cd">>}
                       ELSE IF a[1] = "which" THEN {<<0, m>> : m \in mysh_which(a).err}
                       ELSE {}
            /\ printed' = IF a[1] = "pwd" THEN pwd(cwd)
                          ELSE IF a[1] = "which" THEN mysh_which(a).out
                          ELSE IF a[1] = "exit" THEN mysh_exit(a, 2)
                          ELSE <<>>
            /\ status' = 1 /\ pipeIndex' = 0
            /\ UNCHANGED fdt
       ELSE /\ pipeIndex' = FindPipe(a, 1)
            /\ pc' = IF FindPipe(a, 1) = 0 THEN "fork" ELSE "pipe"
            /\ diag' = {}
            /\ printed' = <<>>
            /\ UNCHANGED <<fdt, cwd, status, exitCode>>

\* loop: read_line and split_line give the vector line, expand_wildcards
\* rewrites it, then execute; a memory fault in expand_wildcards ends the
\* interpreter with the status of a process killed by SIGSEGV
ReadLine(line) ==
    /\ pc = "read"
    /\ \E o \in expand_wildcards(line) :
        /\ globCalls' = o.calls
        /\ IF o.fault
           THEN /\ pc' = "terminated"
                /\ exitCode' = 139
                /\ args' = line
                /\ UNCHANGED <<pipeIndex, fdt, cwd, status, diag, printed>>
           ELSE execute(o.args)
    /\ UNCHANGED <<pid, pid1, pid2, child, tok, exp, fil>>

\* launch: pipe(pipefd), then the array is cut at the "|"
Pipe ==
    /\ pc = "pipe"
    /\ \E ok \in BOOLEAN :
        IF ok
        THEN /\ fdt' = [fdt EXCEPT ![0].open = @ \o <<PipeR, PipeW>>]
             /\ args' = [args EXCEPT ![pipeIndex] = NULL]
             /\ pc' = "fork1"
             /\ UNCHANGED <<status, diag>>
        ELSE /\ diag' = diag \cup {<<0, "pipe">>}
             /\ status' = -1
             /\ pc' = "returned"
             /\ UNCHANGED <<fdt, args>>
    /\ UNCHANGED <<pipeIndex, pid, pid1, pid2, child, cwd, exitCode, globCalls, printed, tok, exp, fil>>

\* fork(): the child starts with a copy of the caller's descriptors and memory
ForkChild(k, role, a) ==
    /\ child' = [child EXCEPT ![k] = Forked(role, a)]
    /\ fdt' = [fdt EXCEPT ![k] = fdt[0]]

\* single_command_execution: pid = fork()
ForkSingle ==
    /\ pc = "fork"
    /\ \E ok \in BOOLEAN :
        IF ok
        THEN /\ ForkChild(1, "single", args)
             /\ pid' = 1
             /\ pc' = "wait"
             /\ UNCHANGED <<status, diag>>
        ELSE /\ pid' = -1
             /\ diag' = diag \cup {<<0, "mysh">>}
             /\ status' = 1
             /\ pc' = "returned"
             /\ UNCHANGED <<child, fdt>>
    /\ UNCHANGED <<args, pipeIndex, pid1, pid2, cwd, exitCode, globCalls, printed, tok, exp, fil>>

\* launch: (pid1 = fork()) == 0
Fork1 ==
    /\ pc = "fork1"
    /\ \E ok \in BOOLEAN :
        IF ok
        THEN ForkChild(1, "producer", args) /\ pid1' = 1
        ELSE pid1' = -1 /\ UNCHANGED <<child, fdt>>
    /\ pc' = "fork2"
    /\ UNCHANGED <<args, pipeIndex, pid, pid2, cwd, status, diag, exitCode, globCalls, printed, tok, exp, fil>>

\* launch: (pid2 = fork()) == 0
Fork2 ==
    /\ pc = "fork2"
    /\ \E ok \in BOOLEAN :
        IF ok
        THEN ForkChild(2, "consumer", SubSeq(args, pipeIndex + 1, Len(args))) /\ pid2' = 2
        ELSE pid2' = -1 /\ UNCHANGED <<child, fdt>>
    /\ pc' = "close"
    /\ UNCHANGED <<args, pipeIndex, pid, pid1, cwd, status, diag, exitCode, globCalls, printed, tok, exp, fil>>

\* faulty variant: only the read end is closed
ParentClose_ReadOnly(open) == close(open, PipeR)

\* faulty variant: only the write end is closed
ParentClose_WriteOnly(open) == close(open, PipeW)

\* launch: the parent closes both ends of the pipe
ParentClose(open) == close(close(open, PipeR), PipeW)

ClosePipe ==
    /\ pc = "close"
    /\ fdt' = [fdt EXCEPT ![0].open = ParentClose(@)]
    /\ pc' = "wait1"
    /\ UNCHANGED <<args, pipeIndex, pid, pid1, pid2, child, cwd, status, diag, exitCode, globCalls, printed, tok, exp, fil>>

\* ------------------------------------------------------------- waiting
\* the children a waitpid(p, ...) of the interpreter can report: p itself,
\* or any child when p = -1; none left means ECHILD and an immediate return
Waitable(p) ==
    {k \in Children : (p = -1 \/ p = k) /\ child[k].state \in Alive \cup Terminated}

\* what waitpid reports: a termination, and with WUNTRACED a stop not yet reported
Reportable(c, untraced) ==
    c.state \in Terminated \/ (untraced /\ c.state = "stopped" /\ c.pending)

\* faulty variant: a stop notification ends the loop too
wait_loop_done_OnStop(st) == st \in Terminated \cup {"stopped"}

\* the do-while of single_command_execution ends on WIFEXITED or WIFSIGNALED
wait_loop_done(st) == st \in Terminated

Reported(c) ==
    IF c.state \in Terminated THEN [c EXCEPT !.state = "reaped"]
    ELSE [c EXCEPT !.pending = FALSE]

\* single_command_execution: do waitpid(pid, &status, WUNTRACED) while ...
WaitSingle ==
    /\ pc = "wait"
    /\ \E k \in Waitable(pid) :
        /\ Reportable(child[k], TRUE)
        /\ child' = [child EXCEPT ![k] = Reported(@)]
        /\ fdt' = fdt
        /\ IF wait_loop_done(child[k].state)
           THEN pc' = "returned" /\ status' = 1
           ELSE pc' = "wait" /\ status' = status
    /\ UNCHANGED <<args, pipeIndex, pid, pid1, pid2, cwd, diag, exitCode, globCalls, printed, tok, exp, fil>>

\* faulty variant: the wait returns at once, as with WNOHANG
WaitPiped_NoHang(p) ==
    IF \E k \in Waitable(p) : Reportable(child[k], FALSE)
    THEN \E k \in Waitable(p) :
            /\ Reportable(child[k], FALSE)
            /\ child' = [child EXCEPT ![k].state = "reaped"]
    ELSE child' = child

\* waitpid(p, NULL, 0) of launch
WaitPiped(p) ==
    IF Waitable(p) = {}
    THEN child' = child
    ELSE \E k \in Waitable(p) :
            /\ Reportable(child[k], FALSE)
            /\ child' = [child EXCEPT ![k] = Reported(@)]

Wait1 ==
    /\ pc = "wait1"
    /\ WaitPiped(pid1)
    /\ pc' = "wait2"
    /\ UNCHANGED <<args, pipeIndex, pid, pid1, pid2, fdt, cwd, status, diag, exitCode, globCalls, printed, tok, exp, fil>>

Wait2 ==
    /\ pc = "wait2"
    /\ WaitPiped(pid2)
    /\ pc' = "returned"
    /\ status' = 1
    /\ UNCHANGED <<args, pipeIndex, pid, pid1, pid2, fdt, cwd, diag, exitCode, globCalls, printed, tok, exp, fil>>

\* ------------------------------------------------------ steps of a child
\* from fork to execvp or exit: the child's own code
ChildSetup(k) ==
    /\ child[k].state = "forked"
    /\ LET o == child_code(child[k].role, child[k].args, fdt[k])
       IN  \E fault \in BOOLEAN :
           /\ fault => o.nullfile
           /\ fdt' = AfterChild(fdt, k, o)
           /\ diag' = diag \cup {<<k, m>> : m \in IF fault THEN {} ELSE o.diag}
           /\ child' = [child EXCEPT ![k] =
                  IF o.started
                  THEN [@ EXCEPT !.state = "running", !.args = o.args, !.argv = Argv(o.args),
                                 !.startIn = o.t.in, !.startOut = o.t.out,
                                 !.startOpen = o.t.open]
                  ELSE IF fault
                  THEN [@ EXCEPT !.state = "signaled", !.args = o.args, !.code = 1]
                  ELSE IF o.exits
                  THEN [@ EXCEPT !.state = "exited", !.args = o.args, !.code = EXIT_FAILURE,
                                 !.execFailed = o.execFailed]
                  ELSE [@ EXCEPT !.state = "in loop", !.args = o.args,
                                 !.execFailed = o.execFailed]]
    /\ UNCHANGED <<pc, args, pipeIndex, pid, pid1, pid2, cwd, status, exitCode, globCalls, printed, tok, exp, fil>>

\* (a child that neither replaced its program nor exited would go on in
\* the code behind the fork, the interpreter's, and come back into loop:
\* state "in loop")

\* the target program is stopped by a signal
ChildStop(k) ==
    /\ child[k].state = "running"
    /\ child' = [child EXCEPT ![k].state = "stopped", ![k].pending = TRUE]
    /\ UNCHANGED <<pc, args, pipeIndex, pid, pid1, pid2, fdt, cwd, status, diag, exitCode, globCalls, printed, tok, exp, fil>>

\* ... and continued
ChildCont(k) ==
    /\ child[k].state = "stopped"
    /\ child' = [child EXCEPT ![k].state = "running", ![k].pending = FALSE]
    /\ UNCHANGED <<pc, args, pipeIndex, pid, pid1, pid2, fdt, cwd, status, diag, exitCode, globCalls, printed, tok, exp, fil>>

\* the target program exits, or a signal ends it; its descriptors are closed
ChildEnd(k) ==
    /\ child[k].state \in {"running", "stopped"}
    /\ \E how \in {"exit0", "exit1", "signal"} :
        /\ how # "signal" => child[k].state = "running"
        /\ child' = [child EXCEPT ![k].state = IF how = "signal" THEN "signaled" ELSE "exited",
                                  ![k].code = IF how = "exit0" THEN 0 ELSE 1,
                                  ![k].pending = FALSE]
    /\ fdt' = [fdt EXCEPT ![k] = Closed]
    /\ UNCHANGED <<pc, args, pipeIndex, pid, pid1, pid2, cwd, status, diag, exitCode, globCalls, printed, tok, exp, fil>>

\* loop: free(line), free(args), while (status): the locals of the finished
\* call are gone; a child that was not reaped would still be there
Loop ==
    /\ pc = "returned"
    /\ status # 0
    /\ pc' = "read"
    /\ args' = <<NULL>>
    /\ pipeIndex' = 0
    /\ pid' = 0 /\ pid1' = 0 /\ pid2' = 0
    /\ child' = [k \in Children |-> IF child[k].state = "reaped" THEN NoChild ELSE child[k]]
    /\ diag' = {}
    /\ globCalls' = 0
    /\ printed' = <<>>
    /\ UNCHANGED <<fdt, cwd, status, exitCode, tok, exp, fil>>

\* read_line: getline gives -1: at end of input the session ends with
\* EXIT_SUCCESS after a notice, on a read error with EXIT_FAILURE after perror
EndOfInput ==
    /\ pc = "read"
    /\ \E feof \in BOOLEAN :
        IF feof
        THEN diag' = {<<0, "End of file reached. Exiting.">>} /\ exitCode' = EXIT_SUCCESS
        ELSE diag' = {<<0, "getline">>} /\ exitCode' = EXIT_FAILURE
    /\ pc' = "terminated"
    /\ UNCHANGED <<args, pipeIndex, pid, pid1, pid2, fdt, child, cwd, status,
                   globCalls, printed, tok, exp, fil>>

\* split_line and expand_wildcards are not being looked at on their own
NoCall == [pc |-> "none"]

InitSession ==
    /\ pc = "read"
    /\ globCalls = 0
    /\ args = <<NULL>>
    /\ pipeIndex = 0
    /\ pid = 0 /\ pid1 = 0 /\ pid2 = 0
    /\ fdt = [p \in {0, 1, 2} |-> IF p = 0 THEN [in |-> Tty, out |-> Tty, open |-> <<>>] ELSE Closed]
    /\ child = [k \in Children |-> NoChild]
    /\ cwd = "start"
    /\ status = 1
    /\ diag = {}
    /\ exitCode = 0
    /\ printed = <<>>

Init ==
    /\ tok = NoCall
    /\ exp = NoCall
    /\ fil = NoCall
    /\ InitSession

Next ==
    \/ \E line \in Lines : ReadLine(line)
    \/ Pipe
    \/ ForkSingle
    \/ Fork1
    \/ Fork2
    \/ ClosePipe
    \/ WaitSingle
    \/ Wait1
    \/ Wait2
    \/ \E k \in Children : ChildSetup(k)
    \/ \E k \in Children : ChildStop(k)
    \/ \E k \in Children : ChildCont(k)
    \/ \E k \in Children : ChildEnd(k)
    \/ Loop
    \/ EndOfInput

Spec == Init /\ [][Next]_vars

\* ------------------------------------------- a launch under fair scheduling
\* the processes that hold the write end of the pipe, as their standard
\* output or as another open descriptor
WriteHolders == {p \in DOMAIN fdt : fdt[p].out = PipeW \/ Holds(fdt[p], PipeW)}

\* a program that reads the pipe to its end: read gives 0 once no process
\* holds the write end, and the program exits
ChildEof(k) ==
    /\ child[k].state = "running"
    /\ child[k].startIn = PipeR
    /\ WriteHolders = {}
    /\ child' = [child EXCEPT ![k].state = "exited", ![k].code = 0, ![k].pending = FALSE]
    /\ fdt' = [fdt EXCEPT ![k] = Closed]
    /\ UNCHANGED <<pc, args, pipeIndex, pid, pid1, pid2, cwd, status, diag, exitCode, globCalls, printed, tok, exp, fil>>

\* lines with one command and with two, without and with redirections
FairLines ==
    {Append(v, NULL) : v \in
        { <<"cat">>, <<"cat", "|", "cat">>, <<"nf", "|", "cat">>, <<"cat", "|", "nf">>,
          <<"cat", ">", "f", "|", "cat">>, <<"cat", "|", "cat", "<", "f">> }}

\* the steps of the interpreter inside launch
ParentStep == Fork1 \/ Fork2 \/ ClosePipe \/ Wait1 \/ Wait2

NextFair ==
    \/ \E line \in FairLines : ReadLine(line)
    \/ Pipe
    \/ ForkSingle
    \/ ParentStep
    \/ WaitSingle
    \/ \E k \in Children : ChildSetup(k)
    \/ \E k \in Children : ChildStop(k)
    \/ \E k \in Children : ChildCont(k)
    \/ \E k \in Children : ChildEnd(k)
    \/ \E k \in Children : ChildEof(k)
    \/ Loop
    \/ EndOfInput

\* the scheduler lets the interpreter and each child take the step it can
\* take; a stopped child is continued; nothing is assumed on when a
\* program ends on its own, on signals, or on the next line being there
Fairness ==
    /\ WF_vars(ParentStep)
    /\ WF_vars(\E k \in Children : ChildSetup(k))
    /\ WF_vars(\E k \in Children : ChildCont(k))
    /\ SF_vars(\E k \in Children : ChildEof(k))

SpecFair == Init /\ [][NextFair]_vars /\ Fairness

\* ------------------------------------- the dispatcher's kinds of line
\* lines of every kind execute tells apart, as split_line hands them to
\* expand_wildcards: empty, comment, each built-in with and without
\* arguments, external commands, a pipeline, and lines with wildcards
DispatchLines ==
    {Append(v, NULL) : v \in
        { <<>>, <<"#">>, <<"#", "cat">>, <<"#", "*.c">>, <<"#", "x", "*.zzz">>,
          <<"cd">>, <<"cd", "~">>, <<"cd", "dir">>, <<"cd", "nodir">>,
          <<"pwd">>, <<"which">>, <<"which", "cat">>, <<"which", "nf">>,
          <<"which", "pwd">>, <<"which", "cd">>, <<"which", "cat", "f">>,
          <<"exit">>, <<"exit", "f">>, <<"exit", "f", "nf">>, <<"exit", "f", "*.zzz">>,
          <<"cat">>, <<"nf">>, <<"cat", "<", "nf">>, <<"cat", ">", "f">>,
          <<"cat", "|", "cat">>, <<"cat", "|", "nf">>,
          <<"*.c">>, <<"*">>, <<"cat", "*.c">>, <<"cat", "f", "*.zzz">>,
          <<"cat", "f", "f", "f", "*.c">> }}

NextDispatch ==
    \/ \E line \in DispatchLines : ReadLine(line)
    \/ Pipe
    \/ ForkSingle
    \/ Fork1
    \/ Fork2
    \/ ClosePipe
    \/ WaitSingle
    \/ Wait1
    \/ Wait2
    \/ \E k \in Children : ChildSetup(k)
    \/ \E k \in Children : ChildStop(k)
    \/ \E k \in Children : ChildCont(k)
    \/ \E k \in Children : ChildEnd(k)
    \/ Loop
    \/ EndOfInput

SpecDispatch == Init /\ [][NextDispatch]_vars

\* ------------------------------------------------- split_line on its own
\* the lines read_line returns: at most MaxLine characters and the newline,
\* or without a newline when the input ends behind the last character;
\* and one longer line
LineChars == {"a", " ", "\t", "\r", Quote}
QuotedExample == <<"l", "s", " ", "-", "l", " ", Quote, "m", "y", " ", "f", "i", "l", "e", Quote>>
InputLines ==
    LET bodies == SeqsUpTo(LineChars, MaxLine) \cup {QuotedExample}
    IN  {Append(b, "\n") : b \in bodies} \cup (bodies \ {<<>>})
\* what the buffer can hold behind the terminating NUL
StaleBytes == {<<>>, <<"a">>, <<"a", " ", "a">>}

\* the round trip of C18: the tokens joined again, one space between two
RECURSIVE Rejoin(_)
Rejoin(ts) ==
    IF ts = <<>> THEN <<>>
    ELSE IF Len(ts) = 1 THEN ts[1]
    ELSE ts[1] \o <<" ">> \o Rejoin(Tail(ts))

InitSplit ==
    /\ fil = NoCall
    /\ tok \in {[pc |-> "call", line |-> l, stale |-> b] : l \in InputLines, b \in StaleBytes}
    /\ exp = NoCall
    /\ InitSession

\* tokens = split_line(line)
Split ==
    /\ tok.pc = "call"
    /\ tok' = [pc |-> "split", line |-> tok.line, stale |-> tok.stale,
               out |-> split_line(tok.line, tok.stale)]
    /\ UNCHANGED <<session, exp, fil>>

\* the tokens are joined and the joined line, in a buffer of its own, is
\* handed to split_line again
Resplit ==
    /\ tok.pc = "split"
    /\ \E b \in StaleBytes :
          tok' = [pc |-> "resplit", line |-> tok.line, stale |-> tok.stale, out |-> tok.out,
                  again |-> split_line(Rejoin(tok.out.tokens), b)]
    /\ UNCHANGED <<session, exp, fil>>

NextSplit == Split \/ Resplit

SpecSplit == InitSplit /\ [][NextSplit]_vars

\* ------------------------------------------- expand_wildcards on its own
\* the vectors it is called with: every vector of at most MaxVector tokens
\* over plain words and patterns, and two longer ones
ExpandTokens == {"ls", "x", "*.c", "*.zzz"}
LongVectors == { <<"echo", "a", "b", "c", "*.zzz">>, <<"echo", "a", "b", "c", "*.c", "x">> }
ExpandVectors == {Append(v, NULL) : v \in SeqsUpTo(ExpandTokens, MaxVector) \cup LongVectors}

InitExpand ==
    /\ tok = NoCall
    /\ fil = NoCall
    /\ exp \in {[pc |-> "call", args |-> v] : v \in ExpandVectors}
    /\ InitSession

Expand ==
    /\ exp.pc = "call"
    /\ \E o \in expand_wildcards(exp.args) :
          exp' = [pc |-> "done", args |-> exp.args, out |-> o]
    /\ UNCHANGED <<session, tok, fil>>

NextExpand == Expand

SpecExpand == InitExpand /\ [][NextExpand]_vars

\* ------------------------------------- a redirected child and the files
\* A child of single_command_execution whose command line holds
\* redirections, with the files of the environment as state.
MaxOutput == 2
FileNames == {"f", "g"}
Contents == {<<>>, <<"x", "y">>}
FileSystems == UNION {[D -> Contents] : D \in SUBSET FileNames}
RedirPairs == {<<op, n>> : op \in {"<", ">", ">>"}, n \in FileNames}
FileVectors ==
    {<<"cat">> \o p : p \in RedirPairs} \cup {<<"cat">> \o p \o q : p, q \in RedirPairs}

\* write(fd, block) by a program: with O_APPEND at the end of the file,
\* else at the descriptor's offset pos
write(files, fd, pos, block) ==
    LET old == files[fd.name]
        new == IF fd.mode = "a" \/ pos >= Len(old) THEN Append(old, block)
               ELSE [old EXCEPT ![pos + 1] = block]
    IN  [files EXCEPT ![fd.name] = new]

InitFiles ==
    /\ tok = NoCall
    /\ exp = NoCall
    /\ InitSession
    /\ fil \in {[pc |-> "forked", line |-> Append(v, NULL), args |-> Append(v, NULL),
                 before |-> fs, files |-> fs, in |-> Tty, out |-> Tty, pos |-> 0,
                 written |-> <<>>, diag |-> {}] : v \in FileVectors, fs \in FileSystems}

\* single_command_execution, pid == 0: setup_redirection, then execvp
FilesSetup ==
    /\ fil.pc = "forked"
    /\ LET r == setup_redirection(fil.args, [in |-> Tty, out |-> Tty, open |-> <<>>], fil.files)
       IN  fil' = [fil EXCEPT !.pc = IF r.ret = 0 /\ execvp(r.args) THEN "running" ELSE "exited",
                              !.args = r.args, !.files = r.files,
                              !.in = r.t.in, !.out = r.t.out, !.diag = r.diag]
    /\ UNCHANGED <<session, tok, exp>>

\* the program writes a block to its standard output
FilesWrite ==
    /\ fil.pc = "running"
    /\ Len(fil.written) < MaxOutput
    /\ fil' = [fil EXCEPT !.written = Append(@, "o"),
                          !.pos = @ + 1,
                          !.files = IF fil.out.kind = "file"
                                    THEN write(@, fil.out, fil.pos, "o") ELSE @]
    /\ UNCHANGED <<session, tok, exp>>

\* the program ends
FilesExit ==
    /\ fil.pc = "running"
    /\ fil' = [fil EXCEPT !.pc = "done"]
    /\ UNCHANGED <<session, tok, exp>>

NextFiles ==
    \/ FilesSetup
    \/ FilesWrite
    \/ FilesExit

SpecFiles == InitFiles /\ [][NextFiles]_vars

\* ---------------------------------------------------------------- claims
\* the vector child k was forked with, as the line gave it
OrigVector(k) ==
    IF child[k].role = "consumer" THEN Argv(SubSeq(args, pipeIndex + 1, Len(args)))
    ELSE Argv(args)

\* the program of child k was started (execvp replaced the child's code)
Started(k) == child[k].argv # <<>>
\* child k has run its code up to execvp or exit
Decided(k) == child[k].state \notin {"none", "forked"}

\* v[i] stands where an operator is read as an operator: it is not the file
\* name of an operator before it
RECURSIVE IsScanPos(_, _)
IsScanPos(v, i) ==
    \/ i = 1
    \/ i > 1 /\ IsScanPos(v, i - 1) /\ ~IsOp(v[i - 1])
    \/ i > 2 /\ IsScanPos(v, i - 2) /\ IsOp(v[i - 2])

RedirAt(v, i) == i \in 1..Len(v) /\ IsOp(v[i]) /\ IsScanPos(v, i)

\* C1: the interpreter's own standard input and output are the same before,
\* during and after every launch, whatever redirections the line holds and
\* whether resolving them succeeds or fails.
C1_ParentStreamsKept == fdt[0].in = Tty /\ fdt[0].out = Tty

C1_Witness ==
    /\ pc = "returned"
    /\ child[1].state = "reaped" /\ child[1].role = "single"
    /\ child[1].startOut.kind = "file" /\ child[1].startIn.kind = "file"
    /\ fdt[0].in = Tty /\ fdt[0].out = Tty

\* C2 (as claimed): a producer whose vector holds an explicit > or >> starts
\* its program with the named file as standard output, not the pipe.
ProducerRedirectsOut(k) ==
    \E i \in 1..Len(OrigVector(k)) :
        RedirAt(OrigVector(k), i) /\ OrigVector(k)[i] \in {">", ">>"}

C2_ProducerFileWins ==
    \A k \in Children :
        (child[k].role = "producer" /\ Started(k) /\ ProducerRedirectsOut(k))
            => child[k].startOut.kind = "file"

\* C3 (as claimed): a consumer whose vector holds an explicit <, forked after
\* the producer, starts its program with the named file as standard input,
\* not the pipe's read end.
ConsumerRedirectsIn(k) ==
    \E i \in 1..Len(OrigVector(k)) :
        RedirAt(OrigVector(k), i) /\ OrigVector(k)[i] = "<"

C3_ConsumerFileWins ==
    \A k \in Children :
        (child[k].role = "consumer" /\ pid1 = 1 /\ Started(k) /\ ConsumerRedirectsIn(k))
            => child[k].startIn.kind = "file"

\* C4: when launch has returned (and when the next line is read) every child
\* it created has terminated and has been reaped: none is running, stopped
\* or a zombie.
C4_AllReapedOnReturn ==
    pc \in {"returned", "read", "terminated"}
        => \A k \in Children : child[k].state \in {"none", "reaped"}

C4_Witness ==
    /\ pc = "returned"
    /\ child[1].state = "reaped" /\ child[1].role = "producer"
    /\ child[2].state = "reaped" /\ child[2].role = "consumer"

\* C5: while the parent is blocked in a wait of the piped path it holds
\* neither end of the pipe, and both forks have been attempted before.
C5_NoPipeEndWhileWaiting ==
    pc \in {"wait1", "wait2"}
        => /\ ~Holds(fdt[0], PipeR) /\ ~Holds(fdt[0], PipeW)
           /\ pid1 # 0 /\ pid2 # 0

C5_Witness ==
    /\ pc = "wait1"
    /\ child[1].state = "running" /\ child[2].state = "running"
    /\ fdt[0].open = <<>>

\* C6: in the single-command path the parent leaves its wait only when the
\* child it forked has exited or was ended by a signal, and that child is
\* reaped by the same call; a stop notification never ends the wait.
C6_StopNeverEndsWait ==
    [][(pc = "wait" /\ pc' # "wait")
          => (child[pid].state \in Terminated /\ child'[pid].state = "reaped")]_vars

\* a stop of the child was reported and the parent waits again
C6_Witness ==
    /\ pc = "wait"
    /\ child[1].state = "stopped" /\ ~child[1].pending

\* the two command vectors of the current line
LeftVector == IF pipeIndex = 0 THEN Argv(args) ELSE Argv(SubSeq(args, 1, pipeIndex - 1) \o <<NULL>>)
RightVector == IF pipeIndex = 0 THEN <<>> ELSE Argv(SubSeq(args, pipeIndex + 1, Len(args)))

\* C7 (as claimed): in a pipeline of two commands, after a failed fork of the
\* producer the consumer is not forked, and a launch in which a fork failed
\* has emitted a diagnostic and reaped the children it created when it returns.
C7_ForkFailureAborts ==
    (LeftVector # <<>> /\ RightVector # <<>>
        /\ Head(LeftVector) \in Programs /\ Head(RightVector) \in Programs)
        => /\ pid1 = -1 => pid2 = 0
           /\ (pc = "returned" /\ (pid1 = -1 \/ pid2 = -1))
                 => /\ \E d \in diag : d[1] = 0
                    /\ \A k \in Children : child[k].state \in {"none", "reaped"}

\* the last token of v is read as an operator, so no file name follows it
EndsInOperator(v) == Len(v) > 0 /\ RedirAt(v, Len(v))

\* v names, behind an operator, a file that cannot be opened
NamesUnopenable(v) ==
    \E i \in 1..Len(v) - 1 : RedirAt(v, i) /\ v[i + 1] \in Unopenable

C9_OpenFailureStopsProgram ==
    \A k \in Children :
        (Decided(k) /\ NamesUnopenable(OrigVector(k)))
            => /\ ~Started(k)
               /\ child[k].state \in {"exited", "reaped"}
               /\ child[k].code = 1
               /\ <<k, "mysh: open input">> \in diag \/ <<k, "mysh: open output">> \in diag
               /\ pc = "returned" => status # 0

C9_Witness ==
    /\ pc = "returned"
    /\ child[1].state = "reaped" /\ child[1].role = "single"
    /\ OrigVector(1) = <<"cat", "<", "nf">>
    /\ ~Started(1) /\ child[1].code = 1
    /\ status # 0

\* the vector without the operators read as operators and their file names
Kept(v, i) == ~RedirAt(v, i) /\ ~(i > 1 /\ RedirAt(v, i - 1))

RECURSIVE StripFrom(_, _)
StripFrom(v, i) ==
    IF i > Len(v) THEN <<>>
    ELSE (IF Kept(v, i) THEN <<v[i]>> ELSE <<>>) \o StripFrom(v, i + 1)

\* C10 (as claimed): the vector handed to the target program is the original
\* vector without the operator tokens and their file names; every other
\* element is kept, in order.
C10_ArgvKeepsOthers ==
    \A k \in Children : Started(k) => child[k].argv = StripFrom(OrigVector(k), 1)

\* C11: every redirection pair of a vector is resolved, not only the first.
\* The program of a single command starts with the file of the last "<" pair
\* as standard input, opened for reading, and the file of the last ">" or
\* ">>" pair as standard output, opened in that operator's mode, wherever in
\* the vector and in whichever order the pairs stand; cat < f > g and
\* cat > g < f both start cat with the vector [cat], input f, output g.
LastPair(v, ops, i) ==
    /\ RedirAt(v, i) /\ v[i] \in ops /\ i < Len(v)
    /\ \A j \in (i + 1)..Len(v) : ~(RedirAt(v, j) /\ v[j] \in ops)

C11_EveryPairResolved ==
    \A k \in Children :
        (child[k].role = "single" /\ Started(k)) =>
            LET v == OrigVector(k)
            IN  /\ \A i \in 1..Len(v) :
                      LastPair(v, {"<"}, i) => child[k].startIn = File(v[i + 1], "r")
                /\ \A i \in 1..Len(v) :
                      LastPair(v, {">", ">>"}, i)
                          => child[k].startOut = File(v[i + 1], OpenMode(v[i]))
                /\ v \in {<<"cat", "<", "f", ">", "g">>, <<"cat", ">", "g", "<", "f">>}
                      => /\ child[k].argv = <<"cat">>
                         /\ child[k].startIn = File("f", "r")
                         /\ child[k].startOut = File("g", "w")

C11_Witness ==
    /\ child[1].role = "single" /\ Started(1)
    /\ OrigVector(1) = <<"cat", ">", "g", "<", "f">>
    /\ child[1].startIn = File("f", "r") /\ child[1].startOut = File("g", "w")

\* C12 (as claimed): a line whose "|" has no command before it or none after
\* it is a pipeline-construction failure: no program is started for either
\* side of the pipe.
EmptySide == pipeIndex > 0 /\ (LeftVector = <<>> \/ RightVector = <<>>)

C12_EmptySideStartsNothing ==
    EmptySide => \A k \in Children : ~Started(k)

\* the words of a vector that are neither a pattern nor a name a pattern matched
MatchNames == {"a.c", "b.c"}
Plain(v) == SelectSeq(v, LAMBDA t : t \notin Wildcards \cup MatchNames)
\* expand_wildcards has returned
Expanded == exp.pc = "done" /\ ~exp.out.fault

\* C13 (as claimed): wildcard expansion changes only the wildcard elements.
\* The words that are no wildcard, before and behind a replaced element,
\* are all still in the vector, unchanged and in the same order, and
\* element 0 is untouched unless it is itself a wildcard.
C13_OnlyWildcardsChange ==
    Expanded =>
        /\ Plain(Argv(exp.out.args)) = Plain(Argv(exp.args))
        /\ exp.args[1] \notin Wildcards => exp.out.args[1] = exp.args[1]

\* C14 (as claimed): a wildcard that matches no directory entry is kept as
\* it was written: the call returns with the pattern still in its place, it
\* is not removed and the call does not fail. (Stated for the first wildcard
\* of a vector, which nothing before it has displaced.)
FirstWildcard(v, i) ==
    /\ i \in 1..Len(Argv(v)) /\ v[i] \in Wildcards
    /\ \A j \in 1..(i - 1) : v[j] \notin Wildcards

C14_NoMatchKept ==
    exp.pc = "done" =>
        \A i \in 1..Len(exp.args) :
            (FirstWildcard(exp.args, i) /\ Matches(exp.args[i]) = <<>>)
                => ~exp.out.fault /\ exp.out.args[i] = exp.args[i]

\* ---------------------------------------------------- claims on split_line
SplitDone == tok.pc \in {"split", "resplit"}
\* the number of quote characters among the first n characters of s
RECURSIVE QuotesIn(_, _)
QuotesIn(s, n) == IF n = 0 THEN 0 ELSE QuotesIn(s, n - 1) + (IF s[n] = Quote THEN 1 ELSE 0)
InsideQuotes(s, p) == QuotesIn(s, p - 1) % 2 = 1
Balanced(s) == QuotesIn(s, Len(s)) % 2 = 0

\* C15 (as claimed): double quotes are delimiters and not part of a token:
\* no token holds a quote character, and ls -l "my file" gives exactly the
\* three tokens ls, -l and my file.
C15_QuotesNotInTokens ==
    SplitDone =>
        /\ \A k \in 1..Len(tok.out.tokens) :
              \A p \in 1..Len(tok.out.tokens[k]) : tok.out.tokens[k][p] # Quote
        /\ tok.line = Append(QuotedExample, "\n")
              => tok.out.tokens = <<<<"l", "s">>, <<"-", "l">>, <<"m", "y", " ", "f", "i", "l", "e">>>>

\* C16 (as claimed): for every line, no token is empty and every whitespace
\* character in a token stands between quotes; a line of whitespace only
\* gives no token; space, tab, carriage return and newline delimit alike:
\* writing a space for each of them leaves the tokens the same but for that.
Spaced(s) == [p \in 1..Len(s) |-> IF isspace(s[p]) THEN " " ELSE s[p]]

C16_TokensClean ==
    SplitDone =>
        /\ \A k \in 1..Len(tok.out.tokens) :
              /\ tok.out.tokens[k] # <<>>
              /\ \A p \in 1..Len(tok.out.tokens[k]) :
                    isspace(tok.out.tokens[k][p]) => InsideQuotes(tok.out.tokens[k], p)
        /\ (\A p \in 1..Len(tok.line) : isspace(tok.line[p])) => tok.out.tokens = <<>>
        /\ split_line(Spaced(tok.line), tok.stale).tokens
              = [k \in 1..Len(tok.out.tokens) |-> Spaced(tok.out.tokens[k])]

\* C17: for every line with a double quote that is never closed, split_line
\* comes to an end without an error, and the token that was open when the
\* line ended is emitted and reaches to the end of the line: from the first
\* character behind the last whitespace outside quotes before the open
\* quote, to the last character of the line that is not its final newline
\* or other final whitespace.
OpenQuote(s) == CHOOSE q \in 1..Len(s) : s[q] = Quote /\ \A r \in (q + 1)..Len(s) : s[r] # Quote
Breaks(s, q) == {p \in 1..(q - 1) : isspace(s[p]) /\ ~InsideQuotes(s, p)}
OpenStart(s) ==
    IF Breaks(s, OpenQuote(s)) = {} THEN 1
    ELSE 1 + CHOOSE p \in Breaks(s, OpenQuote(s)) : \A r \in Breaks(s, OpenQuote(s)) : r <= p
LineEnd(s) == IF isspace(s[Len(s)]) THEN Len(s) - 1 ELSE Len(s)

C17_OpenTokenEndsAtEol ==
    (tok.pc # "none" /\ tok.pc # "call" /\ ~Balanced(tok.line)) =>
        \E k \in 1..Len(tok.out.tokens) :
            tok.out.tokens[k] = SubSeq(tok.line, OpenStart(tok.line), LineEnd(tok.line))

C17_Witness ==
    /\ tok.pc = "split"
    /\ tok.line = <<Quote, "a", " ", "a", "\n">>
    /\ tok.out.tokens = <<<<Quote, "a", " ", "a">>>>

\* C18 (as claimed): for a line with balanced quotes, splitting it, joining
\* the tokens with single spaces and splitting the joined line gives the
\* same tokens again.
C18_SplitIdempotent ==
    (tok.pc = "resplit" /\ Balanced(tok.line)) => tok.again.tokens = tok.out.tokens

\* ------------------------------------------------ claims on the dispatcher
\* C19 (as claimed): whatever a line other than exit comes to, execute
\* returns a status that keeps the loop going, and the session ends only on
\* the exit command or at the end of the input.
C19_OnlyExitEndsSession ==
    /\ pc = "returned" => status # 0
    /\ pc = "terminated" => (args[1] = "exit" \/ args = <<NULL>>)

\* C20 (as claimed): for an empty line and for a line whose first token is
\* a comment, the dispatcher reports continue and nothing else was done for
\* the line: no wildcard was expanded, no built-in ran, no process was made.
NothingToRun == args[1] = NULL \/ args[1] \in CommentTokens

C20_CommentDoesNothing ==
    (pc \in {"returned", "terminated"} /\ NothingToRun /\ args # <<NULL>>) =>
        /\ pc = "returned" /\ status = 1
        /\ globCalls = 0
        /\ pid = 0 /\ pid1 = 0 /\ pid2 = 0 /\ pipeIndex = 0 /\ diag = {}
\* ---------------------------------------------------------------- C21
\* the words of a line after its first one, each followed by a space
RECURSIVE Echoed(_)
Echoed(words) ==
    IF words = <<>> THEN <<>> ELSE <<Head(words), " ">> \o Echoed(Tail(words))

\* the session has ended on an exit line / at the end of input / on a
\* failed read
EndedByExit == pc = "terminated" /\ args[1] = "exit"
EndedAtEof == pc = "terminated" /\ <<0, "End of file reached. Exiting.">> \in diag
EndedByReadError == pc = "terminated" /\ <<0, "getline">> \in diag

\* C21: the session ends with status 0 on an exit line, whatever words
\* follow exit, after those words were echoed, and on a clean end of input;
\* it ends with a non-zero status when reading fails otherwise; once it has
\* ended nothing more is processed.
C21_SessionEnd ==
    /\ [](/\ EndedByExit => exitCode = 0 /\ printed = Echoed(Tail(Argv(args))) \o <<"\n">>
          /\ EndedAtEof => exitCode = 0
          /\ EndedByReadError => exitCode # 0)
    /\ [][pc = "terminated" => pc' = "terminated" /\ printed' = printed]_vars

\* C21 counterexample: the session has ended on an exit line whose words
\* held a wildcard, with the status of a process killed by a memory fault
\* and nothing echoed
C21_ExitLineFaults ==
    /\ EndedByExit
    /\ exitCode = 139
    /\ printed = <<>>

\* ---------------------------------------------------------------- C22
\* child k called execvp for a program that cannot be executed
ExecFailed(k) == child[k].execFailed
\* child k wrote a diagnostic
Reports(k) == \E d \in diag : d[1] = k

\* C22: a child whose target program cannot be executed reports the failure
\* and ends with a failure status, in the single-command path and on either
\* side of a pipe; the interpreter's working directory is as it was and the
\* loop goes on.
C22_ExecFailureInChildOnly ==
    /\ [](\A k \in Children : ExecFailed(k) =>
            /\ child[k].state \in {"exited", "reaped"}
            /\ child[k].code # 0
            /\ Reports(k)
            /\ pc # "terminated"
            /\ pc = "returned" => status # 0)
    /\ [][pc # "read" => cwd' = cwd]_vars

\* C22 counterexample: on a side of a pipe the child whose program cannot
\* be executed has ended with a failure status and has reported nothing
C22_SilentInPipe ==
    \E k \in Children :
        /\ ExecFailed(k)
        /\ child[k].role \in {"producer", "consumer"}
        /\ child[k].args[1] = "nf"
        /\ child[k].state = "exited" /\ child[k].code # 0
        /\ ~Reports(k)

\* ---------------------------------------------------------------- C23
\* the launch of the current line was given up because pipe failed /
\* because fork failed in single_command_execution
PipeFailed == pc = "returned" /\ pipeIndex # 0 /\ args[pipeIndex] = "|"
ForkFailed == pc = "returned" /\ pid = -1
\* the diagnostics that name the operation
NamesPipe == {"pipe"}
NamesFork == {"fork", "mysh: fork"}

\* C23: when pipe fails, or fork fails for a single command, no program
\* is run, a diagnostic naming the failed operation is written by the
\* interpreter, and the loop goes on.
C23_LaunchAborted ==
    /\ PipeFailed => /\ \A k \in Children : child[k].state = "none"
                     /\ \E d \in diag : d[1] = 0 /\ d[2] \in NamesPipe
                     /\ status # 0
    /\ ForkFailed => /\ \A k \in Children : child[k].state = "none"
                     /\ \E d \in diag : d[1] = 0 /\ d[2] \in NamesFork
                     /\ status # 0

\* C23 counterexample: fork failed for a single command and the only
\* diagnostic is the one perror writes for the name of the shell
C23_ForkFailureNamesShell ==
    /\ ForkFailed
    /\ args[1] = "cat"
    /\ diag = {<<0, "mysh">>}

\* ---------------------------------------------------------------- C24
\* the operators op of the child's line that name n
OpsOn(n, ops) == {i \in 1..(Len(fil.line) - 1) : fil.line[i] \in ops /\ fil.line[i + 1] = n}
\* the last output operator of the line names n
LastOutputIs(n) ==
    \E i \in OpsOn(n, {">", ">>"}) :
        \A m \in FileNames : \A j \in OpsOn(m, {">", ">>"}) : j <= i
\* the child's redirections were all set up and its program was started
FilesResolved == fil.pc \in {"running", "done"}
\* the content of n the claim gives: nothing of before when ">" named n or
\* n did not exist, else what it held; then the output when n is the file
\* the output goes to
ClaimedContent(n) ==
    (IF OpsOn(n, {">"}) # {} \/ n \notin DOMAIN fil.before THEN <<>> ELSE fil.before[n])
    \o (IF LastOutputIs(n) THEN fil.written ELSE <<>>)

\* C24: ">" creates a missing file and discards what an existing one held,
\* so the file holds only the child's output; ">>" creates a missing file
\* and keeps what an existing one held, the output coming after it; "<"
\* opens for reading only and fails when the file does not exist.
C24_OpenModes ==
    /\ FilesResolved =>
        \A n \in FileNames :
            /\ n \in DOMAIN fil.files <=> n \in DOMAIN fil.before \/ OpsOn(n, {">", ">>"}) # {}
            /\ n \in DOMAIN fil.files => fil.files[n] = ClaimedContent(n)
            /\ \A i \in OpsOn(n, {"<"}) :
                 n \in DOMAIN fil.before \/ \E j \in OpsOn(n, {">", ">>"}) : j < i
    /\ fil.pc # "none" /\ fil.in.kind = "file" => fil.in.mode = "r"
    /\ fil.pc # "none" /\ fil.out.kind = "file" => fil.out.mode \in {"w", "a"}
    /\ fil.pc = "exited" /\ fil.line[2] = "<" /\ fil.line[3] \notin DOMAIN fil.before
         => fil.files = fil.before /\ fil.diag = {"mysh: open input"}

\* C24 witness: the child of  cat > f  has written and ended, f held two
\* blocks before and holds the child's output only
C24_Witness ==
    /\ fil.pc = "done"
    /\ Argv(fil.line) = <<"cat", ">", "f">>
    /\ "f" \in DOMAIN fil.before /\ fil.before["f"] = <<"x", "y">>
    /\ fil.written = <<"o">>
    /\ fil.files["f"] = <<"o">>

\* ---------------------------------------------------------------- C25
\* the line execute has just returned from
JustRan(name) == pc = "read" /\ pc' = "returned" /\ args'[1] = name
\* the directory a cd line asks for, and whether it can be entered
Asked == IF args'[2] \in {NULL, "~"} THEN "home" ELSE args'[2]

\* C25: cd without argument, or with ~, makes the home directory the
\* working directory; a cd that succeeds makes the directory it names the
\* working directory, a cd that fails leaves it; nothing else changes it;
\* pwd prints the working directory, which is so the directory of the last
\* cd that succeeded.
C25_CdThenPwd ==
    /\ [][/\ JustRan("cd") => cwd' = IF Asked \in {"home", "dir"} THEN Asked ELSE cwd
          /\ ~JustRan("cd") => cwd' = cwd
          /\ JustRan("pwd") => printed' = <<cwd, "\n">>]_vars
    /\ [](pc = "returned" /\ args[1] = "pwd" => printed = <<cwd, "\n">>)

\* C25 witness: pwd has printed the home directory, which a cd line made
\* the working directory
C25_Witness ==
    /\ pc = "returned"
    /\ args[1] = "pwd"
    /\ cwd = "home"
    /\ printed = <<"home", "\n">>

\* ---------------------------------------------------------------- C26
\* execute has returned from a which line
WhichRan == pc = "returned" /\ args[1] = "which"
\* the directories of the search, in order, that hold an executable name
HitsFor(name) == {i \in 1..3 : <<"/usr/local/bin", "/usr/bin", "/bin">>[i] \o "/" \o name
                                 \in {"/usr/bin/cat", "/bin/cat", "/bin/pwd"}}
FirstHit(name) == CHOOSE i \in HitsFor(name) : \A j \in HitsFor(name) : i <= j
\* C26: which with exactly one argument gives exactly one result: the path
\* of the name in the first of /usr/local/bin, /usr/bin, /bin that holds an
\* executable of that name; when none does, that the name is a shell
\* built-in for cd, pwd, which and exit, and that it is not found for any
\* other name. With no argument or more than one it writes the usage
\* diagnostic and nothing else.
C26_Which ==
    WhichRan =>
        IF args[2] # NULL /\ args[3] = NULL
        THEN IF HitsFor(args[2]) # {}
             THEN /\ printed = <<<<"/usr/local/bin", "/usr/bin", "/bin">>[FirstHit(args[2])]
                                   \o "/" \o args[2], "\n">>
                  /\ diag = {}
             ELSE IF args[2] \in {"cd", "pwd", "which", "exit"}
             THEN /\ printed = <<"mysh: ", args[2], ": shell built-in command", "\n">>
                  /\ diag = {}
             ELSE /\ printed = <<>>
                  /\ diag = {<<0, "mysh: " \o args[2] \o ": Command not found">>}
        ELSE /\ printed = <<>>
             /\ diag = {<<0, "mysh: expected one argument to \"which\"">>}

\* C26 witness: which cat has printed the path in /usr/bin, the first of
\* the two directories that hold cat
C26_Witness ==
    /\ WhichRan
    /\ Argv(args) = <<"which", "cat">>
    /\ printed = <<"/usr/bin/cat", "\n">>

\* ---------------------------------------------------------------- C27
\* the interpreter is between two lines
BetweenLines == pc \in {"read", "returned"}

\* C27: between two lines the interpreter holds the descriptors it held
\* at the start: its standard input and output and nothing else, no pipe
\* end and no redirection file, whatever the lines before did.
C27_SameDescriptors ==
    BetweenLines => fdt[0] = [in |-> Tty, out |-> Tty, open |-> <<>>]

\* C27 witness: a piped launch with a redirection on each side has returned
\* and the interpreter holds nothing but its standard streams
C27_Witness ==
    /\ pc = "returned"
    /\ pipeIndex = 4
    /\ args[2] = "<" /\ args[4] = NULL /\ args[6] = ">"
    /\ child[1].state = "reaped" /\ child[2].state = "reaped"
    /\ fdt[0].open = <<>>

\* ---------------------------------------------------------------- C28
\* the tokens of the line of the piped launch under way
PipedLine == Argv([args EXCEPT ![pipeIndex] = "|"])
FirstBar == CHOOSE i \in 1..Len(PipedLine) :
                PipedLine[i] = "|" /\ \A j \in 1..(i - 1) : PipedLine[j] # "|"
\* the tokens before the first "|" / all the tokens after it
BeforeBar == SubSeq(PipedLine, 1, FirstBar - 1)
AfterBar == SubSeq(PipedLine, FirstBar + 1, Len(PipedLine))
SideOf(k) == IF child[k].role = "producer" THEN BeforeBar ELSE AfterBar
\* the array was cut and the launch has not returned to loop's next line
Piped == pipeIndex # 0 /\ pc \in {"fork1", "fork2", "close", "wait1", "wait2", "returned"}
                       /\ args[pipeIndex] = NULL

\* C28: a line with "|" is split at the first "|" only: the producer is
\* forked with the tokens before it, the consumer with all the tokens after
\* it, a later "|" among them; a side without redirection operator is
\* started with exactly these words.
C28_SplitAtFirstBar ==
    Piped =>
        \A k \in Children :
            /\ child[k].state = "forked" => Argv(child[k].args) = SideOf(k)
            /\ (child[k].state = "running" /\ \A i \in 1..Len(SideOf(k)) : ~IsOp(SideOf(k)[i]))
                 => child[k].argv = SideOf(k)

\* C28 witness: on the line  cat | cat | cat  the consumer was started with
\* the second "|" as an argument
C28_Witness ==
    /\ Piped
    /\ PipedLine = <<"cat", "|", "cat", "|", "cat">>
    /\ child[1].state = "running" /\ child[1].argv = <<"cat">>
    /\ child[2].state = "running" /\ child[2].argv = <<"cat", "|", "cat">>

\* ---------------------------------------------------------------- C29
\* child k has run the code behind its fork
PastFork(k) == child[k].state \notin {"none", "forked"}
\* child k runs, or ran, the program that replaced the interpreter's code
Replaced(k) == child[k].argv # <<>> /\ child[k].argv[1] \in {"cat"}
\* the processes in the read-execute loop
InLoop == (IF pc \in {"read", "returned"} THEN {0} ELSE {})
          \cup {k \in Children : child[k].state = "in loop"}

\* C29: a child that has run the code behind its fork has replaced its
\* program or has ended; no child is ever in the read-execute loop, where
\* only the interpreter is.
C29_ChildNeverInLoop ==
    /\ \A k \in Children :
        PastFork(k) =>
            \/ child[k].state \in {"running", "stopped"} /\ Replaced(k)
            \/ child[k].state \in {"exited", "signaled", "reaped"}
    /\ InLoop \subseteq {0}

\* C29 witness: on  cat | nf  the producer runs cat while the consumer,
\* whose program cannot be executed, has ended with a failure status
C29_Witness ==
    /\ pc = "wait1"
    /\ child[1].state = "running" /\ child[1].argv = <<"cat">>
    /\ child[2].state = "exited" /\ child[2].execFailed /\ child[2].code = 1
    /\ child[2].args[1] = "nf"

\* ---------------------------------------------------------------- C30
\* a piped launch is under way
InLaunch == pc \in {"fork1", "fork2", "close", "wait1", "wait2"}
\* ... and its producer has ended
ProducerEnded ==
    /\ InLaunch
    /\ child[1].role = "producer"
    /\ child[1].state \in {"exited", "signaled", "reaped"}

\* C30: under fair scheduling, once the producer of a piped launch has
\* ended, there comes a state where no process holds the write end of the
\* pipe, so that the consumer reads the end of its input, and the launch of
\* a consumer that ends at the end of its input returns.
C30_ConsumerSeesEof ==
    /\ ProducerEnded ~> WriteHolders = {}
    /\ ProducerEnded ~> pc = "returned"

\* C30 witness: the producer has ended, the interpreter waits for the
\* consumer, which runs on the pipe, and no process holds the write end
C30_Witness ==
    /\ pc = "wait2"
    /\ child[1].role = "producer" /\ child[1].state = "reaped"
    /\ child[2].state = "running" /\ child[2].startIn = PipeR
    /\ WriteHolders = {}

\* ---------------------------------------------------------------- C31
\* child k's program has been started
ProgramStarted(k) == child[k].state \in {"running", "stopped"}

\* C31: when its program starts a child holds no descriptor besides its
\* standard input and output: no file the resolver opened and no pipe end.
C31_NothingLeftOpen ==
    \A k \in Children : ProgramStarted(k) => child[k].startOpen = <<>>

\* C31 counterexample: the program of  cat > f > f  runs with its output
\* on the file of the second operator while the descriptor of the first
\* is still open
C31_FirstOfTwoLeftOpen ==
    /\ child[1].role = "single"
    /\ child[1].state = "running"
    /\ child[1].argv = <<"cat">>
    /\ child[1].startOut = File("f", "w")
    /\ child[1].startOpen = <<File("f", "w")>>

\* ---------------------------------------------------------------- C32
\* C32: the scan of split_line stops at the NUL that ends the line: the
\* index at which the loop ends, the greatest one it reads, is not beyond
\* the length of the line.
C32_ScanStopsAtNul ==
    SplitDone => tok.out.end <= Len(tok.line)

\* C32 counterexample: on the line  a  without newline the scan has gone
\* over the NUL, has read the byte behind it and made a token of it
C32_ScanPastNul ==
    /\ tok.pc = "split"
    /\ tok.line = <<"a">>
    /\ tok.stale = <<"a">>
    /\ tok.out.end > Len(tok.line) + 1
    /\ tok.out.tokens = <<<<"a">>, <<"a">>>>

\* ---------------------------------------------------------------- C33
\* C33: expand_wildcards stores nothing outside the array: whenever a
\* pattern was replaced by its names, the names, the elements before them
\* and the NULL behind them were all inside the allocated slots.
C33_WithinCapacity ==
    exp.pc = "done" => ~exp.out.overrun

\* C33 counterexample: for  x *.c  the array was reallocated to the three
\* slots of two names and NULL, and the names and NULL were stored in the
\* second, third and fourth slot
C33_StoredOutside ==
    /\ exp.pc = "done"
    /\ Argv(exp.args) = <<"x", "*.c">>
    /\ exp.out.overrun
    /\ Argv(exp.out.args) = <<"x", "a.c", "b.c">>

\* ---------------------------------------------------------------- C34
\* the current line held a pattern, and none of the lines with a pattern
\* holds an operator of its own: an operator in the vector is a file name
\* the expansion produced
LineExpanded == globCalls > 0 /\ pc \notin {"read", "terminated"}

\* C34: a name produced by the expansion is an ordinary argument: the line
\* is never split at it as at a pipe operator, and no child takes it for a
\* redirection operator, so every word of the vector reaches the program
\* that is started.
C34_ExpansionIsArgument ==
    LineExpanded =>
        /\ pipeIndex = 0
        /\ pc # "pipe"
        /\ \A k \in Children : child[k].state = "running" => child[k].argv = Argv(args)

\* C34 counterexample: the line  *  in a directory that holds a file named
\* |  was split at that name: a pipe was made, the words before the name
\* went to a producer and the word after it to a consumer
C34_MatchedBarSplitsLine ==
    /\ globCalls = 1
    /\ pc = "close"
    /\ pipeIndex = 4
    /\ Argv(args) = <<"a.c", "b.c", "cat">>
    /\ child[1].role = "producer"
    /\ child[2].role = "consumer" /\ child[2].args[1] = "~"
    /\ Holds(fdt[0], PipeR) /\ Holds(fdt[0], PipeW)

====
